---- MODULE Spec2Model ----
(***************************************************************************)
(* A model of src/hash.rs: the Bao tree hash.                              *)
(*                                                                         *)
(*   - the primitive hasher (hash_node, parent_hash, finalize_hash), with  *)
(*     Blake2b as an ideal hash: a digest is the record of everything that *)
(*     was fed to the Blake2b state plus its last-node flag;               *)
(*   - the tree geometry (largest_power_of_two, left_len);                 *)
(*   - the recursive hashers hash_recurse, hash_recurse_rayon and hash;    *)
(*   - the incremental State (push_subtree, merge_parent, merge_finish,    *)
(*     finish);                                                            *)
(*   - the Pipeline and the Writer with their worker tasks.                *)
(*                                                                         *)
(* Input bytes are symbolic: a byte string is a sequence of half-open      *)
(* ranges <<lo, hi>> of positions of the caller's input stream, kept       *)
(* normalised (no empty range, adjacent ranges joined), so that two byte   *)
(* strings are equal iff they hold the same input bytes in the same order. *)
(***************************************************************************)
EXTENDS Integers, Sequences, FiniteSets, TLC

\* ------------------------------------------------------------- constants
HASH_SIZE == 32
PARENT_SIZE == 2 * HASH_SIZE
HEADER_SIZE == 8
CHUNK_SIZE == 4096
MAX_DEPTH == 64
MAX_SINGLE_THREADED == 4 * CHUNK_SIZE

\* ---------------------------------------------------------- byte strings
\* The empty byte string (Vec::new(), &[]).
NoBytes == <<>>

\* The bytes lo .. hi-1 of the input stream.
Bytes(lo, hi) == IF hi > lo THEN << <<lo, hi>> >> ELSE <<>>

RECURSIVE BLen(_)
\* slice.len()
BLen(b) == IF b = <<>> THEN 0 ELSE (Head(b)[2] - Head(b)[1]) + BLen(Tail(b))

\* extend_from_slice: b followed by c.
Cat(b, c) ==
    IF b = <<>> THEN c
    ELSE IF c = <<>> THEN b
    ELSE IF b[Len(b)][2] = c[1][1]
         THEN SubSeq(b, 1, Len(b) - 1) \o << <<b[Len(b)][1], c[1][2]>> >> \o Tail(c)
         ELSE b \o c

RECURSIVE BTake(_, _)
\* &b[..n]
BTake(b, n) ==
    IF n <= 0 \/ b = <<>> THEN <<>>
    ELSE LET h == Head(b)
             l == h[2] - h[1]
         IN  IF n >= l THEN Cat(<<h>>, BTake(Tail(b), n - l))
             ELSE << <<h[1], h[1] + n>> >>

RECURSIVE BDrop(_, _)
\* &b[n..]
BDrop(b, n) ==
    IF n <= 0 \/ b = <<>> THEN b
    ELSE LET h == Head(b)
             l == h[2] - h[1]
         IN  IF n >= l THEN BDrop(Tail(b), n - l)
             ELSE << <<h[1] + n, h[2]>> >> \o Tail(b)

\* ------------------------------------------------------ primitive hasher
RECURSIVE LEBytes(_, _)
\* The k low bytes of n, least significant first.
LEBytes(n, k) == IF k = 0 THEN <<>> ELSE <<n % 256>> \o LEBytes(n \div 256, k - 1)

\* encode_len: the 8-byte little-endian encoding of a u64.
encode_len(len) == LEBytes(len, HEADER_SIZE)

RECURSIVE decode_len(_)
\* decode_len: the u64 read back from little-endian bytes.
decode_len(bytes) ==
    IF bytes = <<>> THEN 0 ELSE Head(bytes) + 256 * decode_len(Tail(bytes))

\* enum Finalization
NotRoot == [kind |-> "NotRoot", len |-> 0]
Root(n) == [kind |-> "Root", len |-> n]

\* A fresh Blake2b state: nothing fed yet, last-node flag clear.  `bytes` are
\* the raw input bytes fed, `hashes` the child digests fed, `suffix` the
\* length suffix fed after them.
new_blake2b_state ==
    [bytes |-> NoBytes, hashes |-> <<>>, suffix |-> <<>>, last_node |-> FALSE]

\* finalize_hash: for Root(n), feed encode_len(n) and set the last-node flag,
\* then extract the digest.  Blake2b is an ideal hash: the digest stands for
\* exactly what the state was fed.
finalize_hash(state, finalization) ==
    IF finalization.kind = "Root"
    THEN [state EXCEPT !.suffix = encode_len(finalization.len), !.last_node = TRUE]
    ELSE state

\* hash_node: one chunk of at most CHUNK_SIZE bytes.
hash_node(chunk, finalization) ==
    finalize_hash([new_blake2b_state EXCEPT !.bytes = chunk], finalization)

\* parent_hash: the left digest followed by the right digest.
parent_hash(left_hash, right_hash, finalization) ==
    finalize_hash([new_blake2b_state EXCEPT !.hashes = <<left_hash, right_hash>>],
                  finalization)

\* --------------------------------------------------------- tree geometry
RECURSIVE BitLen(_)
\* The number of significant bits of n (0 for n = 0).
BitLen(n) == IF n = 0 THEN 0 ELSE 1 + BitLen(n \div 2)

\* u64::leading_zeros
leading_zeros(n) == 64 - BitLen(n)

RECURSIVE Shl1(_)
\* 1 << k
Shl1(k) == IF k = 0 THEN 1 ELSE 2 * Shl1(k - 1)

\* largest_power_of_two: 1 << (63 - n.leading_zeros()), for n # 0.
largest_power_of_two(n) == Shl1(63 - leading_zeros(n))

\* left_len: the largest perfect tree of chunks that can go on the left, for
\* content_len > CHUNK_SIZE.
left_len(content_len) ==
    LET full_chunks == (content_len - 1) \div CHUNK_SIZE
    IN  largest_power_of_two(full_chunks) * CHUNK_SIZE

RECURSIVE count_ones(_)
\* u64::count_ones
count_ones(n) == IF n = 0 THEN 0 ELSE (n % 2) + count_ones(n \div 2)

\* ------------------------------------------- tree geometry, full width
\* The functions above work on the lengths the hashers meet, which are far
\* below 2^31.  Over the whole of u64 a value is the sequence of its bytes,
\* least significant first (as encode_len writes it), and the same functions
\* are computed byte by byte.
U64_BITS == 64

U64_BYTES == U64_BITS \div 8

\* n as u64.
U64(n) == LEBytes(n, U64_BYTES)

\* The largest u64, 2^64 - 1.
MaxU64 == [i \in 1 .. U64_BYTES |-> 255]

\* The positions of the nonzero bytes of x.
NonZero(x) == {i \in 1 .. U64_BYTES : x[i] # 0}

\* The position (from 1) of the highest bit set in x, 0 for zero.
TopBit(x) ==
    IF NonZero(x) = {} THEN 0
    ELSE LET hi == CHOOSE i \in NonZero(x) : \A k \in NonZero(x) : k <= i
         IN  8 * (hi - 1) + BitLen(x[hi])

\* x < 2^w.
FitsIn(x, w) == TopBit(x) <= w

\* x is a power of two.
IsPowerOfTwo_u64(x) ==
    /\ Cardinality(NonZero(x)) = 1
    /\ \A i \in NonZero(x) : x[i] = Shl1(BitLen(x[i]) - 1)

\* x < y as unsigned numbers.
Lt_u64(x, y) ==
    \E i \in 1 .. U64_BYTES :
       /\ x[i] < y[i]
       /\ \A k \in i + 1 .. U64_BYTES : x[k] = y[k]

\* u64::leading_zeros
leading_zeros_u64(x) == U64_BITS - TopBit(x)

\* 1 << k: for 0 <= k < 64 the one bit k; a bit shifted past the top is lost.
OneShl_u64(k) ==
    [i \in 1 .. U64_BYTES |-> IF k >= 0 /\ i = (k \div 8) + 1 THEN Shl1(k % 8) ELSE 0]

\* x - 1 for x # 0: the borrow runs through the low zero bytes.
Dec_u64(x) ==
    LET low == CHOOSE i \in NonZero(x) : \A k \in NonZero(x) : i <= k
    IN  [i \in 1 .. U64_BYTES |->
            IF i < low THEN 255 ELSE IF i = low THEN x[i] - 1 ELSE x[i]]

RECURSIVE DivStep(_, _, _, _)
\* Long division of x by the small number d, from byte i down, with the
\* remainder r so far: the quotient bytes from i down, least significant
\* first.
DivStep(x, d, i, r) ==
    IF i = 0 THEN <<>>
    ELSE LET t == 256 * r + x[i]
         IN  DivStep(x, d, i - 1, t % d) \o <<t \div d>>

\* x / d, for 0 < d <= 2^16
Div_u64(x, d) == DivStep(x, d, U64_BYTES, 0)

RECURSIVE MulStep(_, _, _, _)
\* x * m for the small number m, from byte i up, with the carry c so far;
\* what does not fit in 64 bits is lost.
MulStep(x, m, i, c) ==
    IF i > U64_BYTES THEN <<>>
    ELSE LET t == x[i] * m + c
         IN  <<t % 256>> \o MulStep(x, m, i + 1, t \div 256)

\* x * m, for 0 < m <= 2^16
Mul_u64(x, m) == MulStep(x, m, 1, 0)

\* largest_power_of_two shifting by one place more (mutant).
largest_power_of_two_u64_high(n) == OneShl_u64(64 - leading_zeros_u64(n))

\* largest_power_of_two over u64: 1 << (63 - n.leading_zeros()), for n # 0.
largest_power_of_two_u64(n) == OneShl_u64(63 - leading_zeros_u64(n))

\* left_len without the byte reserved for the right side (mutant).
left_len_u64_greedy(content_len) ==
    LET full_chunks == Div_u64(content_len, CHUNK_SIZE)
    IN  Mul_u64(largest_power_of_two_u64(full_chunks), CHUNK_SIZE)

\* left_len over u64, for content_len > CHUNK_SIZE.
left_len_u64(content_len) ==
    LET full_chunks == Div_u64(Dec_u64(content_len), CHUNK_SIZE)
    IN  Mul_u64(largest_power_of_two_u64(full_chunks), CHUNK_SIZE)

\* ------------------------------------------------------ recursive hasher
RECURSIVE hash_recurse(_, _)
\* hash_recurse: the sequential single-shot hasher.
hash_recurse(input, finalization) ==
    IF BLen(input) <= CHUNK_SIZE
    THEN hash_node(input, finalization)
    ELSE LET mid == left_len(BLen(input))
             left_hash == hash_recurse(BTake(input, mid), NotRoot)
             right_hash == hash_recurse(BDrop(input, mid), NotRoot)
         IN  parent_hash(left_hash, right_hash, finalization)

\* hash: the public one-shot hasher, on its sequential path.  The parallel
\* path is the task system HashCall / RayonRun / RayonJoin below.
hash(input) == hash_recurse(input, Root(BLen(input)))

\* ---------------------------------------------------------------- State
\* struct State.  `subtrees` is the ArrayVec of at most MAX_DEPTH digests and
\* `total_len` the byte count.  Two history fields are carried along:
\* `log`, the merges done so far (parent node and finalization of each), and
\* `panic`, "none" until an operation on the State panics: "capacity"
\* (ArrayVec::push on a full vector), "unwrap" (pop().unwrap() on an empty
\* stack) or "index" (subtrees[0] on an empty stack); a panicked State is not
\* touched again.
State_new == [subtrees |-> <<>>, total_len |-> 0, log |-> <<>>, panic |-> "none"]

\* An operation on the State has panicked.
Panicked(self) == self.panic # "none"

\* ArrayVec::push: panics when the vector is full.
ArrayVec_push(self, element) ==
    IF Len(self.subtrees) >= MAX_DEPTH
    THEN [self EXCEPT !.panic = "capacity"]
    ELSE [self EXCEPT !.subtrees = Append(@, element)]

\* merge_inner writing the parent node in the order the children were
\* popped, right before left (mutant).
merge_inner_node_swapped(self, finalization) ==
    IF Len(self.subtrees) < 2
    THEN [self |-> [self EXCEPT !.panic = "unwrap"], parent_node |-> <<>>]
    ELSE LET n == Len(self.subtrees)
             right_child == self.subtrees[n]
             left_child == self.subtrees[n - 1]
             parent_node == <<right_child, left_child>>
             popped == [self EXCEPT !.subtrees = SubSeq(@, 1, n - 2),
                                    !.log = Append(@, [node |-> parent_node,
                                                       fin |-> finalization])]
         IN  [self |-> ArrayVec_push(popped,
                                     parent_hash(left_child, right_child, finalization)),
              parent_node |-> parent_node]

\* merge_inner hashing the two children in the order they were popped,
\* right before left (mutant).
merge_inner_swapped(self, finalization) ==
    IF Len(self.subtrees) < 2
    THEN [self |-> [self EXCEPT !.panic = "unwrap"], parent_node |-> <<>>]
    ELSE LET n == Len(self.subtrees)
             right_child == self.subtrees[n]
             left_child == self.subtrees[n - 1]
             parent_node == <<left_child, right_child>>
             popped == [self EXCEPT !.subtrees = SubSeq(@, 1, n - 2),
                                    !.log = Append(@, [node |-> parent_node,
                                                       fin |-> finalization])]
         IN  [self |-> ArrayVec_push(popped,
                                     parent_hash(right_child, left_child, finalization)),
              parent_node |-> parent_node]

\* merge_inner: pop right, pop left, push their parent.  The result holds
\* the new State and the ParentNode (left digest followed by right digest).
merge_inner(self, finalization) ==
    IF Len(self.subtrees) < 2
    THEN [self |-> [self EXCEPT !.panic = "unwrap"], parent_node |-> <<>>]
    ELSE LET n == Len(self.subtrees)
             right_child == self.subtrees[n]
             left_child == self.subtrees[n - 1]
             parent_node == <<left_child, right_child>>
             popped == [self EXCEPT !.subtrees = SubSeq(@, 1, n - 2),
                                    !.log = Append(@, [node |-> parent_node,
                                                       fin |-> finalization])]
         IN  [self |-> ArrayVec_push(popped,
                                     parent_hash(left_child, right_child, finalization)),
              parent_node |-> parent_node]

\* needs_merge allowing one subtree too many (mutant).
needs_merge_late(self) ==
    LET chunks == self.total_len \div CHUNK_SIZE
    IN  Len(self.subtrees) > count_ones(chunks) + 1

\* needs_merge
needs_merge(self) ==
    LET chunks == self.total_len \div CHUNK_SIZE
    IN  Len(self.subtrees) > count_ones(chunks)

RECURSIVE MergeWhileNeeded(_)
\* The loop of push_subtree: while self.needs_merge() { merge_inner(NotRoot) }
MergeWhileNeeded(self) ==
    IF Panicked(self) \/ ~needs_merge(self) THEN self
    ELSE MergeWhileNeeded(merge_inner(self, NotRoot).self)

\* push_subtree without its merge loop: the subtrees are only merged by
\* finish (mutant).
push_subtree_unmerged(self, subtree_hash, len) ==
    LET pushed == ArrayVec_push(self, subtree_hash)
    IN  IF Panicked(pushed) THEN pushed
        ELSE [pushed EXCEPT !.total_len = @ + len]

\* push_subtree asserting that the length is in (0, CHUNK_SIZE] before it
\* touches the State (mutant).
push_subtree_checked(self, subtree_hash, len) ==
    LET merged == MergeWhileNeeded(self)
        pushed == ArrayVec_push(merged, subtree_hash)
    IN  IF len = 0 \/ len > CHUNK_SIZE THEN [self EXCEPT !.panic = "assert"]
        ELSE IF Panicked(merged) THEN merged
        ELSE IF Panicked(pushed) THEN pushed
        ELSE [pushed EXCEPT !.total_len = @ + len]

\* push_subtree appending first and merging afterwards (mutant).
push_subtree_merge_after(self, subtree_hash, len) ==
    LET pushed == ArrayVec_push(self, subtree_hash)
    IN  IF Panicked(pushed) THEN pushed
        ELSE MergeWhileNeeded([pushed EXCEPT !.total_len = @ + len])

\* push_subtree
push_subtree(self, subtree_hash, len) ==
    LET merged == MergeWhileNeeded(self)
        pushed == ArrayVec_push(merged, subtree_hash)
    IN  IF Panicked(merged) THEN merged
        ELSE IF Panicked(pushed) THEN pushed
        ELSE [pushed EXCEPT !.total_len = @ + len]

\* merge_parent finalizing the merge of the last two subtrees as the root
\* (mutant).
merge_parent_finalizing(self) ==
    IF ~needs_merge(self) THEN [self |-> self, ret |-> <<>>]
    ELSE LET m == merge_inner(self, IF Len(self.subtrees) = 2
                                    THEN Root(self.total_len) ELSE NotRoot)
         IN  [self |-> m.self, ret |-> <<m.parent_node>>]

\* merge_parent: `ret` is <<>> for None and <<parent_node>> for Some.
merge_parent(self) ==
    IF ~needs_merge(self) THEN [self |-> self, ret |-> <<>>]
    ELSE LET m == merge_inner(self, NotRoot)
         IN  [self |-> m.self, ret |-> <<m.parent_node>>]

\* merge_finish finalizing every merge as the root (mutant).
merge_finish_all_root(self) ==
    IF Len(self.subtrees) >= 2
    THEN LET m == merge_inner(self, Root(self.total_len))
         IN  [self |-> m.self, kind |-> "Parent", val |-> m.parent_node]
    ELSE IF Len(self.subtrees) = 1
    THEN [self |-> self, kind |-> "Root", val |-> self.subtrees[1]]
    ELSE [self |-> [self EXCEPT !.panic = "index"], kind |-> "Panic", val |-> <<>>]

\* merge_finish: `kind` is "Parent" (with the parent node), "Root" (with the
\* root hash) or "Panic".
merge_finish(self) ==
    IF Len(self.subtrees) > 2
    THEN LET m == merge_inner(self, NotRoot)
         IN  [self |-> m.self, kind |-> "Parent", val |-> m.parent_node]
    ELSE IF Len(self.subtrees) = 2
    THEN LET root_finalization == Root(self.total_len)
             m == merge_inner(self, root_finalization)
         IN  [self |-> m.self, kind |-> "Parent", val |-> m.parent_node]
    ELSE IF Len(self.subtrees) = 1
    THEN [self |-> self, kind |-> "Root", val |-> self.subtrees[1]]
    ELSE [self |-> [self EXCEPT !.panic = "index"], kind |-> "Panic", val |-> <<>>]

RECURSIVE State_finish(_)
\* State::finish: merge_finish in a loop until it yields the root.
State_finish(self) ==
    LET r == merge_finish(self)
    IN  IF r.kind = "Parent" /\ ~Panicked(r.self) THEN State_finish(r.self) ELSE r

RECURSIVE drive_state_loop(_, _)
\* The loop of the test's drive_state: while more than one chunk is left,
\* push the NotRoot hash of the next chunk.
drive_state_loop(self, rest) ==
    IF BLen(rest) > CHUNK_SIZE
    THEN drive_state_loop(push_subtree(self, hash_node(BTake(rest, CHUNK_SIZE), NotRoot),
                                       CHUNK_SIZE),
                          BDrop(rest, CHUNK_SIZE))
    ELSE [self |-> self, rest |-> rest]

\* drive_state: a State driven chunk by chunk over the whole input.
drive_state(bytes) ==
    LET finalization == IF BLen(bytes) <= CHUNK_SIZE THEN Root(BLen(bytes))
                        ELSE NotRoot
        l == drive_state_loop(State_new, bytes)
        pushed == push_subtree(l.self, hash_node(l.rest, finalization), BLen(l.rest))
    IN  State_finish(pushed).val

\* ------------------------------------------------------------- bounds
\* The Writer's job_size ranges over CHUNK_SIZE * 2^j, j in 0 .. MaxJobExp.
MaxJobExp == 1
\* The Writer's max_jobs ranges over 1 .. MaxJobs.
MaxJobs == 2
\* The caller makes at most MaxWrites calls of write().
MaxWrites == 4
\* The caller writes at most MaxChunks * CHUNK_SIZE bytes in all.
MaxChunks == 7

MaxInput == MaxChunks * CHUNK_SIZE

\* The slice lengths the caller passes to write().
SliceLens ==
    {0, 1, CHUNK_SIZE - 1, CHUNK_SIZE, CHUNK_SIZE + 1, 2 * CHUNK_SIZE,
     3 * CHUNK_SIZE + 1}

\* ------------------------------------------------------------- variables
VARIABLES
    pc,        \* where the caller of the Writer is: "idle" (between calls),
               \* "write", "finish" (inside the call), "done" (finish()
               \* returned), "panic" (a call unwound with a panic)
    input,     \* the rest of the slice of the write() call in progress
    input_len, \* the length of the slice of the last write() call
    wret,      \* <<>>, or <<r>> with r the io::Result the last write() returned
    written,   \* the number of bytes the caller has passed to write() so far
    nwrites,   \* the number of write() calls made so far
    state,     \* Writer.state
    pipeline,  \* Writer.pipeline
    jobs,      \* the spawned worker tasks with their channels, in spawn order
    nvec,      \* the number of Vec<u8> buffers created so far
    result,    \* <<>>, or <<digest>> once finish() has returned
    nfinish,   \* history: the number of finish() calls that have returned
    pushLog,   \* history: the (hash, len) pairs the Writer pushed, in order
    overtaken  \* history: some worker finished before an earlier-spawned one

VARIABLES
    dunit,     \* the caller of a State pushes subtrees of dunit bytes
    dstate,    \* the State the caller drives
    dpos,      \* the number of input bytes the pushed subtrees cover
    dhist,     \* history: the pushes made, each [len, fin] with fin the
               \* finalization the caller hashed that subtree with
    dloop,     \* history: what the merge_parent calls since the last push
               \* returned (<<>> for None, <<node>> for Some)
    dmp,       \* history: the number of merge_parent calls made
    dfin,      \* history: what the merge_finish calls returned, in order
    dphase,    \* "push", "finish" (merge_finish was called), "done" (the
               \* root was returned), "panic"
    dret       \* <<>>, or <<digest>> the root returned

VARIABLES
    hlen,      \* the length of the input of the one-shot hasher
    hentry,    \* the function called: "hash" or "hash_recurse_rayon"
    hphase,    \* "call", "running" (rayon tasks at work), "done"
    tasks,     \* the rayon tasks of hash_recurse_rayon, each [path, input,
               \* fin, status, hash]
    hret,      \* <<>>, or <<digest>> returned
    hovertaken \* history: a right sibling finished before its left sibling

VARIABLES
    gcall,     \* <<>>, or <<[fun, n]>>: the geometry function called and its
               \* u64 argument
    gret       \* <<>>, or <<value>> the u64 it returned

geomVars == <<gcall, gret>>

driverVars == <<dunit, dstate, dpos, dhist, dloop, dmp, dfin, dphase, dret>>

rayonVars == <<hlen, hentry, hphase, tasks, hret, hovertaken>>

writerVars ==
    <<pc, input, input_len, wret, written, nwrites, state, pipeline, jobs, nvec,
      result, nfinish, pushLog, overtaken>>

\* ------------------------------------------------------------- Pipeline
\* Vec::new(): a fresh empty vector that owns no heap storage yet.
Vec_new(id) == [id |-> id, data |-> NoBytes, alloc |-> FALSE]

\* Vec::with_capacity(cap)
Vec_with_capacity(id, cap) == [id |-> id, data |-> NoBytes, alloc |-> cap > 0]

\* Vec::clear: the length drops to 0, the storage is kept.
Vec_clear(v) == [v EXCEPT !.data = NoBytes]

\* Vec::extend_from_slice
Vec_extend_from_slice(v, slice) ==
    [v EXCEPT !.data = Cat(@, slice), !.alloc = @ \/ slice # NoBytes]

\* Pipeline::new, with the job_size and max_jobs of Writer::new_benchmarking.
Pipeline_new(job_size, max_jobs) ==
    [buf |-> Vec_new(1), receivers |-> <<>>, job_size |-> job_size,
     max_jobs |-> max_jobs, first_job |-> TRUE, final_job_sent |-> FALSE]

\* send_one: a bounded(1) channel, its receiver queued at the tail, and a
\* spawned task that owns `buf` and the sender.  The task is jobs[i], and
\* the receiver is its index i.  status: "spawned" (not run yet), "sent" (its
\* (hash, buf) message is in the channel), "hungup" (the sender was dropped
\* without sending), "received" (the producer took the message).
send_one(self, js, buf, finalization) ==
    [pipeline |-> [self EXCEPT !.receivers = Append(@, Len(js) + 1),
                               !.first_job = FALSE],
     jobs |-> Append(js, [buf |-> buf, fin |-> finalization,
                          status |-> "spawned", hash |-> <<>>])]

\* The spawned closure hashing its buffer and then holding on to the sender
\* without ever sending (mutant).
worker_run_never_sends(job) ==
    [job EXCEPT !.hash = <<hash_recurse(job.buf.data, job.fin)>>]

\* The spawned closure: hash_recurse(&buf, finalization), then
\* sender.send((hash, buf)).
worker_run(job) ==
    [job EXCEPT !.hash = <<hash_recurse(job.buf.data, job.fin)>>, !.status = "sent"]

\* receiver.recv() blocks while the task has neither sent nor hung up.
recv_blocks(js, receiver) == js[receiver].status = "spawned"

\* write_loop blocks in recv() when the buffer is full, the queue is
\* saturated and the oldest job is still running.
write_loop_blocks(self, js, slice) ==
    /\ slice # NoBytes
    /\ BLen(self.buf.data) = self.job_size
    /\ ~(Len(self.receivers) < self.max_jobs)
    /\ recv_blocks(js, Head(self.receivers))

\* write_loop's dispatch with a fresh buffer every time, never waiting for a
\* pending job (mutant).
write_loop_dispatch_fresh(self, js, nv) ==
    LET new_buf == Vec_with_capacity(nv + 1, self.job_size)
        sent == send_one([self EXCEPT !.buf = new_buf], js, self.buf, NotRoot)
    IN  [pipeline |-> sent.pipeline, jobs |-> sent.jobs, nvec |-> nv + 1,
         maybe_output |-> <<>>, panic |-> FALSE]

\* write_loop's dispatch that, below max_jobs, sends its buffer to the job
\* and goes on using the same buffer, cleared (mutant).
write_loop_dispatch_alias(self, js, nv) ==
    IF Len(self.receivers) < self.max_jobs
    THEN LET sent == send_one([self EXCEPT !.buf = Vec_clear(self.buf)], js,
                              self.buf, NotRoot)
         IN  [pipeline |-> sent.pipeline, jobs |-> sent.jobs, nvec |-> nv,
              maybe_output |-> <<>>, panic |-> FALSE]
    ELSE LET receiver == Head(self.receivers)
             popped == [self EXCEPT !.receivers = Tail(@)]
         IN  IF js[receiver].status # "sent"
             THEN [pipeline |-> popped, jobs |-> js, nvec |-> nv,
                   maybe_output |-> <<>>, panic |-> TRUE]
             ELSE LET received_buf == js[receiver].buf
                      output == [hash |-> js[receiver].hash[1],
                                 len |-> BLen(received_buf.data)]
                      sent == send_one([popped EXCEPT !.buf = Vec_clear(received_buf)],
                                       [js EXCEPT ![receiver].status = "received"],
                                       self.buf, NotRoot)
                  IN  [pipeline |-> sent.pipeline, jobs |-> sent.jobs, nvec |-> nv,
                       maybe_output |-> <<output>>, panic |-> FALSE]

\* write_loop, the block under `if self.buf.len() == self.job_size`: get a
\* new buffer (a fresh one, or the one the oldest job gives back, cleared),
\* swap it in and send the full one to a new job.  maybe_output is <<>> for
\* None and <<[hash, len]>> for Some; `panic` is recv().expect("worker hung
\* up") panicking.
write_loop_dispatch(self, js, nv) ==
    IF Len(self.receivers) < self.max_jobs
    THEN LET new_buf == Vec_with_capacity(nv + 1, self.job_size)
             full_buf == self.buf
             sent == send_one([self EXCEPT !.buf = new_buf], js, full_buf, NotRoot)
         IN  [pipeline |-> sent.pipeline, jobs |-> sent.jobs, nvec |-> nv + 1,
              maybe_output |-> <<>>, panic |-> FALSE]
    ELSE LET receiver == Head(self.receivers)
             popped == [self EXCEPT !.receivers = Tail(@)]
         IN  IF js[receiver].status # "sent"
             THEN [pipeline |-> popped, jobs |-> js, nvec |-> nv,
                   maybe_output |-> <<>>, panic |-> TRUE]
             ELSE LET received_buf == js[receiver].buf
                      output == [hash |-> js[receiver].hash[1],
                                 len |-> BLen(received_buf.data)]
                      new_buf == Vec_clear(received_buf)
                      full_buf == self.buf
                      sent == send_one([popped EXCEPT !.buf = new_buf],
                                       [js EXCEPT ![receiver].status = "received"],
                                       full_buf, NotRoot)
                  IN  [pipeline |-> sent.pipeline, jobs |-> sent.jobs, nvec |-> nv,
                       maybe_output |-> <<output>>, panic |-> FALSE]

\* write_loop sending the buffer off as soon as it is full, without waiting
\* for more input (mutant).
write_loop_eager(self, js, nv, slice) ==
    LET want == self.job_size - BLen(self.buf.data)
        take == IF want < BLen(slice) THEN want ELSE BLen(slice)
        filled == [self EXCEPT !.buf = Vec_extend_from_slice(@, BTake(slice, take))]
    IN  IF BLen(filled.buf.data) = self.job_size
        THEN write_loop_dispatch(filled, js, nv) @@ [take |-> take]
        ELSE [pipeline |-> filled, jobs |-> js, nvec |-> nv, maybe_output |-> <<>>,
              panic |-> FALSE, take |-> take]

\* write_loop, once it does not block.  The result holds the new pipeline and
\* jobs, the number of Vecs created, the bytes consumed (`take`),
\* maybe_output and `panic`.
write_loop(self, js, nv, slice) ==
    LET same == [pipeline |-> self, jobs |-> js, nvec |-> nv,
                 maybe_output |-> <<>>, panic |-> FALSE]
    IN
    IF slice = NoBytes THEN same @@ [take |-> 0]
    ELSE LET d == IF BLen(self.buf.data) = self.job_size
                  THEN write_loop_dispatch(self, js, nv)
                  ELSE same
             want == self.job_size - BLen(d.pipeline.buf.data)
             take == IF want < BLen(slice) THEN want ELSE BLen(slice)
         IN  IF d.panic THEN d @@ [take |-> 0]
             ELSE [d EXCEPT !.pipeline.buf =
                               Vec_extend_from_slice(@, BTake(slice, take))]
                  @@ [take |-> take]

\* finish_loop's first half finalizing the final job as the root whether or
\* not a job was sent before (mutant).
finish_loop_send_root(self, js, nv) ==
    IF ~self.final_job_sent
    THEN LET sent == send_one([self EXCEPT !.final_job_sent = TRUE,
                                           !.buf = Vec_new(nv + 1)],
                              js, self.buf, Root(BLen(self.buf.data)))
         IN  [pipeline |-> sent.pipeline, jobs |-> sent.jobs, nvec |-> nv + 1]
    ELSE [pipeline |-> self, jobs |-> js, nvec |-> nv]

\* finish_loop, first half: send the final job unless it was sent already.
finish_loop_send(self, js, nv) ==
    IF ~self.final_job_sent
    THEN LET finalization == IF self.first_job THEN Root(BLen(self.buf.data))
                             ELSE NotRoot
             final_buf == self.buf
             sent == send_one([self EXCEPT !.final_job_sent = TRUE,
                                           !.buf = Vec_new(nv + 1)],
                              js, final_buf, finalization)
         IN  [pipeline |-> sent.pipeline, jobs |-> sent.jobs, nvec |-> nv + 1]
    ELSE [pipeline |-> self, jobs |-> js, nvec |-> nv]

\* finish_loop's second half taking a default (hash, buf) when the worker
\* hung up, instead of expect() (mutant).
finish_loop_recv_default(self, js) ==
    IF self.receivers # <<>>
    THEN LET receiver == Head(self.receivers)
             popped == [self EXCEPT !.receivers = Tail(@)]
         IN  IF js[receiver].status # "sent"
             THEN [pipeline |-> popped, jobs |-> js,
                   output |-> <<[hash |-> new_blake2b_state, len |-> 0]>>,
                   panic |-> FALSE]
             ELSE [pipeline |-> popped,
                   jobs |-> [js EXCEPT ![receiver].status = "received"],
                   output |-> <<[hash |-> js[receiver].hash[1],
                                 len |-> BLen(js[receiver].buf.data)]>>,
                   panic |-> FALSE]
    ELSE [pipeline |-> self, jobs |-> js, output |-> <<>>, panic |-> FALSE]

\* finish_loop's second half draining the newest receiver instead of the
\* oldest (mutant).
finish_loop_recv_newest(self, js) ==
    IF self.receivers # <<>>
    THEN LET n == Len(self.receivers)
             receiver == self.receivers[n]
             popped == [self EXCEPT !.receivers = SubSeq(@, 1, n - 1)]
         IN  IF js[receiver].status # "sent"
             THEN [pipeline |-> popped, jobs |-> js, output |-> <<>>, panic |-> TRUE]
             ELSE [pipeline |-> popped,
                   jobs |-> [js EXCEPT ![receiver].status = "received"],
                   output |-> <<[hash |-> js[receiver].hash[1],
                                 len |-> BLen(js[receiver].buf.data)]>>,
                   panic |-> FALSE]
    ELSE [pipeline |-> self, jobs |-> js, output |-> <<>>, panic |-> FALSE]

\* finish_loop, second half: pop the oldest receiver and recv() on it.
\* `output` is <<>> for None and <<[hash, len]>> for Some; the received
\* buffer is dropped.
finish_loop_recv(self, js) ==
    IF self.receivers # <<>>
    THEN LET receiver == Head(self.receivers)
             popped == [self EXCEPT !.receivers = Tail(@)]
         IN  IF js[receiver].status # "sent"
             THEN [pipeline |-> popped, jobs |-> js, output |-> <<>>, panic |-> TRUE]
             ELSE [pipeline |-> popped,
                   jobs |-> [js EXCEPT ![receiver].status = "received"],
                   output |-> <<[hash |-> js[receiver].hash[1],
                                 len |-> BLen(js[receiver].buf.data)]>>,
                   panic |-> FALSE]
    ELSE [pipeline |-> self, jobs |-> js, output |-> <<>>, panic |-> FALSE]

\* --------------------------------------------------------------- Writer
\* Writer::new_benchmarking(job_size, max_jobs), job_size a power-of-two
\* multiple of CHUNK_SIZE.
WriterInitWith(job_size, max_jobs) ==
    /\ pc = "idle"
    /\ input = NoBytes
    /\ input_len = 0
    /\ wret = <<>>
    /\ written = 0
    /\ nwrites = 0
    /\ state = State_new
    /\ pipeline = Pipeline_new(job_size, max_jobs)
    /\ jobs = <<>>
    /\ nvec = 1
    /\ result = <<>>
    /\ nfinish = 0
    /\ pushLog = <<>>
    /\ overtaken = FALSE

WriterInit ==
    \E j \in 0 .. MaxJobExp, max_jobs \in 1 .. MaxJobs :
       WriterInitWith(CHUNK_SIZE * Shl1(j), max_jobs)

\* A Writer nobody uses.
WriterParked == WriterInitWith(CHUNK_SIZE, 1)

\* io::Result<usize>: Ok(n).  Writer::write builds no Err value.
Ok(n) == [kind |-> "Ok", n |-> n]

\* The caller, being at `at`, calls write(slice) with the next len bytes of
\* its input.  An empty slice returns Ok(0) at once.  Writer::write looks at
\* nothing that tells whether finish() was called before.
WriterWriteAt(at, len) ==
    /\ pc = at
    /\ nwrites < MaxWrites
    /\ written + len <= MaxInput
    /\ nwrites' = nwrites + 1
    /\ written' = written + len
    /\ input' = Bytes(written, written + len)
    /\ input_len' = len
    /\ pc' = IF len = 0 THEN "idle" ELSE "write"
    /\ wret' = IF len = 0 THEN <<Ok(len)>> ELSE <<>>
    /\ UNCHANGED <<state, pipeline, jobs, nvec, result, nfinish, pushLog, overtaken>>
    /\ UNCHANGED <<driverVars, rayonVars, geomVars>>

\* write() on a Writer between calls, before any finish().
WriterWrite(len) == nfinish = 0 /\ WriterWriteAt("idle", len)

\* One turn of the loop of Writer::write: write_loop, push_subtree of what it
\* received, and the slice shortened; the call returns Ok(input_len) when
\* the slice is used up.
WriterWriteLoop ==
    /\ pc = "write"
    /\ ~write_loop_blocks(pipeline, jobs, input)
    /\ LET r == write_loop(pipeline, jobs, nvec, input)
       IN  /\ pipeline' = r.pipeline
           /\ jobs' = r.jobs
           /\ nvec' = r.nvec
           /\ IF r.panic
              THEN /\ pc' = "panic"
                   /\ UNCHANGED <<input, state, pushLog, wret>>
              ELSE /\ input' = BDrop(input, r.take)
                   /\ IF r.maybe_output # <<>>
                      THEN /\ state' = push_subtree(state, r.maybe_output[1].hash,
                                                    r.maybe_output[1].len)
                           /\ pushLog' = Append(pushLog, r.maybe_output[1])
                      ELSE UNCHANGED <<state, pushLog>>
                   /\ pc' = IF Panicked(state') THEN "panic"
                            ELSE IF input' = NoBytes THEN "idle" ELSE "write"
                   /\ wret' = IF pc' = "idle" THEN <<Ok(input_len)>> ELSE <<>>
    /\ UNCHANGED <<input_len, written, nwrites, result, nfinish, overtaken>>
    /\ UNCHANGED <<driverVars, rayonVars, geomVars>>

\* The caller, being at `at`, calls finish(): the first finish_loop sends
\* the final job unless final_job_sent says it was sent.
WriterFinishAt(at) ==
    /\ pc = at
    /\ LET r == finish_loop_send(pipeline, jobs, nvec)
       IN  /\ pipeline' = r.pipeline
           /\ jobs' = r.jobs
           /\ nvec' = r.nvec
    /\ pc' = "finish"
    /\ UNCHANGED <<input, input_len, wret, written, nwrites, state, result, nfinish,
                   pushLog, overtaken>>
    /\ UNCHANGED <<driverVars, rayonVars, geomVars>>

\* finish() on a Writer between calls, before any finish().
WriterFinish == nfinish = 0 /\ WriterFinishAt("idle")

\* One turn of the loop of Writer::finish: the oldest receiver is drained and
\* its (hash, len) pushed.
WriterFinishLoop ==
    /\ pc = "finish"
    /\ pipeline.receivers # <<>>
    /\ ~recv_blocks(jobs, Head(pipeline.receivers))
    /\ LET r == finish_loop_recv(pipeline, jobs)
       IN  /\ pipeline' = r.pipeline
           /\ jobs' = r.jobs
           /\ IF r.panic
              THEN /\ pc' = "panic"
                   /\ UNCHANGED <<state, pushLog>>
              ELSE /\ state' = push_subtree(state, r.output[1].hash, r.output[1].len)
                   /\ pushLog' = Append(pushLog, r.output[1])
                   /\ pc' = IF Panicked(state') THEN "panic" ELSE "finish"
    /\ UNCHANGED <<input, input_len, wret, written, nwrites, nvec, result, nfinish,
                   overtaken>>
    /\ UNCHANGED <<driverVars, rayonVars, geomVars>>

\* finish_loop returned None: self.state.finish() is the root.
WriterFinishReturn ==
    /\ pc = "finish"
    /\ pipeline.receivers = <<>>
    /\ LET r == State_finish(state)
       IN  /\ state' = r.self
           /\ IF r.kind = "Root"
              THEN pc' = "done" /\ result' = <<r.val>> /\ nfinish' = nfinish + 1
              ELSE pc' = "panic" /\ UNCHANGED <<result, nfinish>>
    /\ UNCHANGED <<input, input_len, wret, written, nwrites, pipeline, jobs, nvec,
                   pushLog, overtaken>>
    /\ UNCHANGED <<driverVars, rayonVars, geomVars>>

\* The caller makes at most MaxFinishes calls of finish() on one Writer.
MaxFinishes == 2

\* write() on a Writer whose finish() has returned: finish takes &mut self
\* and leaves the Writer with the caller, and write() runs as ever.
WriterWriteAgain(len) ==
    /\ nfinish >= 1
    /\ WriterWriteAt("done", len) \/ WriterWriteAt("idle", len)

\* finish() on a Writer whose finish() has returned.
WriterFinishAgain ==
    /\ nfinish >= 1
    /\ nfinish < MaxFinishes
    /\ WriterFinishAt("done") \/ WriterFinishAt("idle")

\* A pool thread runs a spawned task to its end.
WorkerRun(i) ==
    /\ jobs[i].status = "spawned"
    /\ jobs' = [jobs EXCEPT ![i] = worker_run(@)]
    /\ overtaken' = (overtaken \/ \E k \in 1 .. i - 1 : jobs[k].status = "spawned")
    /\ UNCHANGED <<pc, input, input_len, wret, written, nwrites, state, pipeline, nvec,
                   result, nfinish, pushLog>>
    /\ UNCHANGED <<driverVars, rayonVars, geomVars>>

\* A spawned task dies before it sends: its sender and its buffer are dropped.
WorkerFail(i) ==
    /\ jobs[i].status = "spawned"
    /\ jobs' = [jobs EXCEPT ![i].status = "hungup"]
    /\ UNCHANGED <<pc, input, input_len, wret, written, nwrites, state, pipeline,
                   nvec, result, nfinish, pushLog, overtaken>>
    /\ UNCHANGED <<driverVars, rayonVars, geomVars>>

\* ------------------------------------------------- a caller of State
\* The caller makes at most MaxPushes calls of push_subtree.
MaxPushes == 7
\* At most MaxIrregular of them differ from "dunit bytes, hashed NotRoot".
MaxIrregular == 1
\* dunit ranges over CHUNK_SIZE * 2^j, j in 0 .. MaxUnitExp.
MaxUnitExp == 1

\* The lengths the caller passes to push_subtree.
PushLens(unit) ==
    {0, 1, CHUNK_SIZE, CHUNK_SIZE + 1, unit, 2 * unit}

\* The pushes of h that are not "unit bytes, hashed NotRoot".
Irregular(h, unit) ==
    {i \in 1 .. Len(h) : h[i].len # unit \/ h[i].fin # NotRoot}

DriverInitWith(unit) ==
    /\ dunit = unit
    /\ dstate = State_new
    /\ dpos = 0
    /\ dhist = <<>>
    /\ dloop = <<>>
    /\ dmp = 0
    /\ dfin = <<>>
    /\ dphase = "push"
    /\ dret = <<>>

DriverInit == \E j \in 0 .. MaxUnitExp : DriverInitWith(CHUNK_SIZE * Shl1(j))

\* A State nobody drives.
DriverParked == DriverInitWith(CHUNK_SIZE)

\* The caller hashes the next len bytes of its input with hash_recurse (for
\* len <= CHUNK_SIZE that is hash_node) under the finalization fin, and
\* calls push_subtree(&hash, len).  As in drive_state, only a caller that
\* takes these bytes for its whole input hashes them as the root.
DrvPush(len, fin) ==
    /\ dphase = "push"
    /\ fin.kind = "Root" => dhist = <<>>
    /\ Len(dhist) < MaxPushes
    /\ Cardinality(Irregular(Append(dhist, [len |-> len, fin |-> fin]), dunit))
          <= MaxIrregular
    /\ dstate' = push_subtree(dstate, hash_recurse(Bytes(dpos, dpos + len), fin), len)
    /\ dpos' = dpos + len
    /\ dhist' = Append(dhist, [len |-> len, fin |-> fin])
    /\ dloop' = <<>>
    /\ dphase' = IF Panicked(dstate') THEN "panic" ELSE "push"
    /\ UNCHANGED <<dunit, dmp, dfin, dret>>
    /\ UNCHANGED <<writerVars, rayonVars, geomVars>>

\* The caller calls merge_parent(); it stops calling once it got None.
DrvMergeParent ==
    /\ dphase = "push"
    /\ IF dloop = <<>> THEN TRUE ELSE dloop[Len(dloop)] # <<>>
    /\ LET r == merge_parent(dstate)
       IN  /\ dstate' = r.self
           /\ dloop' = Append(dloop, r.ret)
    /\ dmp' = dmp + 1
    /\ dphase' = IF Panicked(dstate') THEN "panic" ELSE "push"
    /\ UNCHANGED <<dunit, dpos, dhist, dfin, dret>>
    /\ UNCHANGED <<writerVars, rayonVars, geomVars>>

\* The caller calls merge_finish().
DrvMergeFinish ==
    /\ dphase \in {"push", "finish"}
    /\ LET r == merge_finish(dstate)
       IN  /\ dstate' = r.self
           /\ dfin' = Append(dfin, [kind |-> r.kind, val |-> r.val])
           /\ dphase' = IF Panicked(r.self) THEN "panic"
                        ELSE IF r.kind = "Root" THEN "done" ELSE "finish"
           /\ dret' = IF r.kind = "Root" THEN <<r.val>> ELSE dret
    /\ UNCHANGED <<dunit, dpos, dhist, dloop, dmp>>
    /\ UNCHANGED <<writerVars, rayonVars, geomVars>>

\* The caller calls finish().
DrvFinish ==
    /\ dphase \in {"push", "finish"}
    /\ LET r == State_finish(dstate)
       IN  /\ dstate' = r.self
           /\ dphase' = IF r.kind = "Root" THEN "done" ELSE "panic"
           /\ dret' = IF r.kind = "Root" THEN <<r.val>> ELSE dret
    /\ UNCHANGED <<dunit, dpos, dhist, dloop, dmp, dfin>>
    /\ UNCHANGED <<writerVars, rayonVars, geomVars>>

DriverNext ==
    \/ \E len \in PushLens(dunit) : DrvPush(len, NotRoot)
    \/ \E len \in PushLens(dunit) : DrvPush(len, Root(len))
    \/ DrvMergeParent
    \/ DrvMergeFinish
    \/ DrvFinish

\* ---------------------------------------------- the one-shot hashers
\* The one-shot hasher is called on inputs of k * CHUNK_SIZE + d bytes,
\* k in 0 .. MaxHashChunks, d in {-1, 0, 1}.
MaxHashChunks == 6

HashLens ==
    {n \in {k * CHUNK_SIZE + d : k \in 0 .. MaxHashChunks, d \in {-1, 0, 1}} : n >= 0}
    \cup {10}

RayonInitWith(n, entry, phase) ==
    /\ hlen = n
    /\ hentry = entry
    /\ hphase = phase
    /\ tasks = {}
    /\ hret = <<>>
    /\ hovertaken = FALSE

RayonInit ==
    \E n \in HashLens, entry \in {"hash", "hash_recurse_rayon"} :
       RayonInitWith(n, entry, "call")

\* A hasher nobody calls.
RayonParked == RayonInitWith(0, "hash", "done")

\* hash: the parallel path is taken above MAX_SINGLE_THREADED.
hash_is_parallel(len) == ~(len <= MAX_SINGLE_THREADED)

\* One call of hash_recurse_rayon as a task: `path` is its place in the tree
\* (1 for left, 2 for right), status "ready" (not started), "joining" (inside
\* rayon::join, waiting for its two closures) or "done".
RayonTask(path, bytes, finalization) ==
    [path |-> path, input |-> bytes, fin |-> finalization, status |-> "ready",
     hash |-> <<>>]

\* The two closures passing the caller's finalization down (mutant).
rayon_closures_same_fin(t) ==
    LET mid == left_len(BLen(t.input))
    IN  {RayonTask(Append(t.path, 1), BTake(t.input, mid), t.fin),
         RayonTask(Append(t.path, 2), BDrop(t.input, mid), t.fin)}

\* hash_recurse_rayon above one chunk: the two closures handed to
\* rayon::join, each a call of hash_recurse_rayon on one side with NotRoot.
rayon_closures(t) ==
    LET mid == left_len(BLen(t.input))
    IN  {RayonTask(Append(t.path, 1), BTake(t.input, mid), NotRoot),
         RayonTask(Append(t.path, 2), BDrop(t.input, mid), NotRoot)}

\* The task of the closure `side` of t.
Child(t, side) == CHOOSE c \in tasks : c.path = Append(t.path, side)

\* The caller calls hash(input) or hash_recurse_rayon(input, Root(len)).
\* hash() at or below MAX_SINGLE_THREADED runs hash_recurse on the spot.
HashCall ==
    /\ hphase = "call"
    /\ IF hentry = "hash" /\ ~hash_is_parallel(hlen)
       THEN /\ hret' = <<hash_recurse(Bytes(0, hlen), Root(hlen))>>
            /\ hphase' = "done"
            /\ UNCHANGED tasks
       ELSE /\ tasks' = {RayonTask(<<>>, Bytes(0, hlen), Root(hlen))}
            /\ hphase' = "running"
            /\ UNCHANGED hret
    /\ UNCHANGED <<hlen, hentry, hovertaken>>
    /\ UNCHANGED <<writerVars, driverVars, geomVars>>

\* A thread starts a call of hash_recurse_rayon: one chunk or less is hashed
\* with hash_node, more is split and handed to rayon::join.
RayonRun(t) ==
    /\ hphase = "running"
    /\ t.status = "ready"
    /\ IF BLen(t.input) <= CHUNK_SIZE
       THEN /\ tasks' = (tasks \ {t})
                        \cup {[t EXCEPT !.status = "done",
                                        !.hash = <<hash_node(t.input, t.fin)>>]}
            /\ hovertaken' =
                  (hovertaken \/ (/\ t.path # <<>>
                                  /\ t.path[Len(t.path)] = 2
                                  /\ \E c \in tasks :
                                        /\ c.path = Append(SubSeq(t.path, 1, Len(t.path) - 1), 1)
                                        /\ c.status # "done"))
       ELSE /\ tasks' = (tasks \ {t}) \cup {[t EXCEPT !.status = "joining"]}
                        \cup rayon_closures(t)
            /\ UNCHANGED hovertaken
    /\ UNCHANGED <<hlen, hentry, hphase, hret>>
    /\ UNCHANGED <<writerVars, driverVars, geomVars>>

\* rayon::join returns both results and the call returns their parent_hash.
RayonJoin(t) ==
    /\ hphase = "running"
    /\ t.status = "joining"
    /\ Child(t, 1).status = "done"
    /\ Child(t, 2).status = "done"
    /\ LET left_hash == Child(t, 1).hash[1]
           right_hash == Child(t, 2).hash[1]
       IN  tasks' = (tasks \ {t, Child(t, 1), Child(t, 2)})
                    \cup {[t EXCEPT !.status = "done",
                                    !.hash = <<parent_hash(left_hash, right_hash, t.fin)>>]}
    /\ UNCHANGED <<hlen, hentry, hphase, hret, hovertaken>>
    /\ UNCHANGED <<writerVars, driverVars, geomVars>>

\* The outermost call returns.
HashReturn ==
    /\ hphase = "running"
    /\ \E t \in tasks :
          /\ t.path = <<>>
          /\ t.status = "done"
          /\ hret' = t.hash
    /\ hphase' = "done"
    /\ UNCHANGED <<hlen, hentry, tasks, hovertaken>>
    /\ UNCHANGED <<writerVars, driverVars, geomVars>>

RayonNext ==
    \/ HashCall
    \/ \E t \in tasks : RayonRun(t)
    \/ \E t \in tasks : RayonJoin(t)
    \/ HashReturn

\* ------------------------------------------- the geometry functions
\* The arguments are 2^k, 2^k + 2^j (j < k) and what lies within MaxOffset
\* of them, k up to 63, and the largest u64.
MaxOffset == 1

\* x + 1 for x below 2^64 - 1: the carry runs through the low 255 bytes.
Inc_u64(x) ==
    LET NotFull == {i \in 1 .. U64_BYTES : x[i] # 255}
        low == CHOOSE i \in NotFull : \A k \in NotFull : i <= k
    IN  [i \in 1 .. U64_BYTES |->
            IF i < low THEN 0 ELSE IF i = low THEN x[i] + 1 ELSE x[i]]

RECURSIVE Around(_, _)
\* x and the numbers up to d above and below it, within 1 .. 2^64 - 1.
Around(x, d) ==
    IF d = 0 THEN {x}
    ELSE LET near == Around(x, d - 1)
         IN  near
             \cup {Inc_u64(y) : y \in {z \in near : z # MaxU64}}
             \cup {Dec_u64(y) : y \in {z \in near : z # U64(1)}}

\* 2^k + 2^j for j # k, and 2^k for j = k.
PowSum(k, j) ==
    [i \in 1 .. U64_BYTES |->
        IF k = j THEN OneShl_u64(k)[i] ELSE OneShl_u64(k)[i] + OneShl_u64(j)[i]]

GeomInputs ==
    UNION {Around(PowSum(k, j), MaxOffset) : k \in 0 .. U64_BITS - 1, j \in 0 .. U64_BITS - 1}
    \cup {MaxU64}

GeomInitWith(fun, n) ==
    /\ gcall = <<[fun |-> fun, n |-> n]>>
    /\ gret = <<>>

\* largest_power_of_two is called with n # 0 and left_len with content_len >
\* CHUNK_SIZE (their debug_assert!s).
GeomInit ==
    \E n \in GeomInputs :
       \/ GeomInitWith("largest_power_of_two", n)
       \/ Lt_u64(U64(CHUNK_SIZE), n) /\ GeomInitWith("left_len", n)

\* Nobody calls the geometry functions.
GeomParked == gcall = <<>> /\ gret = <<>>

\* largest_power_of_two(n) runs.
LargestPowerOfTwoCall ==
    /\ gcall # <<>>
    /\ gret = <<>>
    /\ gcall[1].fun = "largest_power_of_two"
    /\ gret' = <<largest_power_of_two_u64(gcall[1].n)>>
    /\ UNCHANGED gcall
    /\ UNCHANGED <<writerVars, driverVars, rayonVars>>

\* left_len(content_len) runs.
LeftLenCall ==
    /\ gcall # <<>>
    /\ gret = <<>>
    /\ gcall[1].fun = "left_len"
    /\ gret' = <<left_len_u64(gcall[1].n)>>
    /\ UNCHANGED gcall
    /\ UNCHANGED <<writerVars, driverVars, rayonVars>>

GeomNext ==
    \/ LargestPowerOfTwoCall
    \/ LeftLenCall

WriterNext ==
    \/ \E len \in SliceLens : WriterWrite(len)
    \/ WriterWriteLoop
    \/ WriterFinish
    \/ WriterFinishLoop
    \/ WriterFinishReturn
    \/ \E i \in 1 .. Len(jobs) : WorkerRun(i)

vars == <<writerVars, driverVars, rayonVars, geomVars>>

Init == WriterInit /\ DriverParked /\ RayonParked /\ GeomParked

Next == WriterNext

\* The Writer with its workers, none of which fails.
Spec == Init /\ [][Next]_vars

\* Under scheduling assumptions the caller writes at most
\* MaxLiveChunks * CHUNK_SIZE bytes in all.
MaxLiveChunks == 4

\* The slice lengths that caller passes to write().
LiveLens == {1, CHUNK_SIZE, 2 * CHUNK_SIZE + 1}

\* write() by that caller.
WriterWriteLive(len) ==
    /\ written + len <= MaxLiveChunks * CHUNK_SIZE
    /\ WriterWrite(len)

\* The calling thread inside write() or finish().
ProducerStep == WriterWriteLoop \/ WriterFinishLoop \/ WriterFinishReturn

\* Some pool thread runs some spawned task.
PoolStep == \E i \in 1 .. Len(jobs) : WorkerRun(i)

NextLive ==
    \/ \E len \in LiveLens : WriterWriteLive(len)
    \/ WriterFinish
    \/ ProducerStep
    \/ PoolStep

\* The Writer with its workers under the scheduling the pool gives: the
\* calling thread goes on whenever it is not blocked in recv(), and while
\* spawned tasks wait the pool runs one of them in the end.  A task waits
\* until it is run, so this is no more than every task being run in the end.
\* The caller itself is free never to call again.
SpecLive ==
    /\ Init
    /\ [][NextLive]_vars
    /\ WF_vars(ProducerStep)
    /\ WF_vars(PoolStep)

NextFail ==
    \/ WriterNext
    \/ \E i \in 1 .. Len(jobs) : WorkerFail(i)

\* The Writer with workers that may die before they send.
SpecFail == Init /\ [][NextFail]_vars

NextReuse ==
    \/ WriterNext
    \/ \E len \in SliceLens : WriterWriteAgain(len)
    \/ WriterFinishAgain

\* The Writer with a caller that goes on calling it after finish().
SpecReuse == Init /\ [][NextReuse]_vars

InitState == WriterParked /\ DriverInit /\ RayonParked /\ GeomParked

\* A caller driving a State by hand.
SpecState == InitState /\ [][DriverNext]_vars

InitHash == WriterParked /\ DriverParked /\ RayonInit /\ GeomParked

\* A caller of the one-shot hashers.
SpecHash == InitHash /\ [][RayonNext]_vars

InitGeom == WriterParked /\ DriverParked /\ RayonParked /\ GeomInit

\* A caller of the geometry functions.
SpecGeom == InitGeom /\ [][GeomNext]_vars

\* ------------------------------------------------------- Writer: claims
\* The whole input the caller has passed to write().
WholeInput == Bytes(0, written)

\* The jobs whose buffer is held by a worker or lies in a channel.
LiveJobs == {i \in 1 .. Len(jobs) : jobs[i].status \in {"spawned", "sent"}}

\* The producer popped the receiver of a job that had hung up.
DrainedHungUp ==
    \E i \in 1 .. Len(jobs) :
       /\ jobs[i].status = "hungup"
       /\ \A k \in 1 .. Len(pipeline.receivers) : pipeline.receivers[k] # i

\* The number of job buffers that own storage: the producer's, the workers'
\* and those waiting in channels.
LiveBuffers ==
    (IF pipeline.buf.alloc THEN 1 ELSE 0)
    + Cardinality({i \in LiveJobs : jobs[i].buf.alloc})

RECURSIVE AllInterior(_)
\* Neither the digest d nor any node below it got the length suffix or the
\* last-node flag.
AllInterior(d) ==
    /\ ~d.last_node
    /\ d.suffix = <<>>
    /\ \A k \in 1 .. Len(d.hashes) : AllInterior(d.hashes[k])

\* Every node below the digest d is an interior node.
InteriorBelow(d) == \A k \in 1 .. Len(d.hashes) : AllInterior(d.hashes[k])

RECURSIVE CatAll(_, _)
\* The data of the buffers of the first n jobs, one after the other.
CatAll(js, n) == IF n = 0 THEN NoBytes ELSE Cat(CatAll(js, n - 1), js[n].buf.data)

\* C1: for every partitioning of the input into write() slices, every
\* job_size, every max_jobs and every order of worker completion, the digest
\* finish() returns is hash(s) of the whole input s.
C1_WriterEqualsHash ==
    pc = "done" => result = <<hash(WholeInput)>>

\* C1 witness: finish() returned after several slices, several jobs and a
\* worker that finished before an earlier one.
C1_Witness ==
    /\ pc = "done"
    /\ overtaken
    /\ Len(jobs) >= 3
    /\ nwrites >= 3
    /\ written > 3 * CHUNK_SIZE

\* C3: over a whole Writer run exactly one node is hashed with Root, the
\* topmost one, with the total input length.  With a single job that job is
\* sent with Root(buf.len()) and the State merges nothing; otherwise all jobs
\* and merges are NotRoot except the very last merge, which is
\* Root(total_len).  No node below the top gets the suffix or the flag.
C3_SingleRoot ==
    /\ \A i \in 1 .. Len(jobs) :
          jobs[i].fin.kind = "Root" =>
             /\ Len(jobs) = 1
             /\ jobs[i].fin = Root(written)
             /\ BLen(jobs[i].buf.data) = written
    /\ \A k \in 1 .. Len(state.log) :
          state.log[k].fin.kind = "Root" =>
             /\ k = Len(state.log)
             /\ pc = "done"
             /\ state.log[k].fin = Root(written)
    /\ \A i \in 1 .. Len(jobs) :
          jobs[i].hash # <<>> => InteriorBelow(jobs[i].hash[1])
    /\ \A k \in 1 .. Len(state.subtrees) : InteriorBelow(state.subtrees[k])
    /\ pc # "done" => \A k \in 1 .. Len(state.subtrees) : AllInterior(state.subtrees[k])
                      \/ Len(jobs) = 1
    /\ pc = "done" =>
          /\ \/ /\ Len(jobs) = 1
                /\ jobs[1].fin = Root(written)
                /\ state.log = <<>>
             \/ /\ Len(jobs) >= 2
                /\ \A i \in 1 .. Len(jobs) : jobs[i].fin = NotRoot
                /\ state.log # <<>>
                /\ state.log[Len(state.log)].fin = Root(written)
                /\ state.total_len = written
          /\ result[1].last_node
          /\ result[1].suffix = encode_len(written)
          /\ decode_len(result[1].suffix) = written
          /\ InteriorBelow(result[1])

\* C3 witness: finish() returned after at least three jobs and two merges.
C3_Witness ==
    /\ pc = "done"
    /\ Len(jobs) >= 3
    /\ Len(state.log) >= 2
    /\ state.log[Len(state.log)].fin.kind = "Root"

\* C4: whatever the order in which workers complete, the i-th push_subtree
\* of the Writer carries the digest and length of the i-th job dispatched,
\* and the jobs were dispatched in input order.
C4_PushesInDispatchOrder ==
    /\ Len(pushLog) <= Len(jobs)
    /\ \A i \in 1 .. Len(pushLog) :
          pushLog[i] = [hash |-> hash_recurse(jobs[i].buf.data, jobs[i].fin),
                        len |-> BLen(jobs[i].buf.data)]
    /\ Cat(CatAll(jobs, Len(jobs)), pipeline.buf.data)
          = Bytes(0, written - BLen(input))

\* C4 witness: three pushes were made during write() although a worker had
\* finished before an earlier one.
C4_Witness ==
    /\ overtaken
    /\ Len(pushLog) >= 3
    /\ pc = "write"

\* C7: at most max_jobs + 1 job buffers exist at any time, and the buffer
\* that replaces the k-th dispatched one is a fresh one for k <= max_jobs and
\* beyond that the buffer taken back from the oldest pending job.
C7_BufferCap ==
    /\ LiveBuffers <= pipeline.max_jobs + 1
    /\ \A i \in 1 .. Len(jobs) :
          jobs[i].buf.id = IF i <= pipeline.max_jobs + 1 THEN i
                           ELSE jobs[i - pipeline.max_jobs - 1].buf.id
    /\ ~pipeline.final_job_sent =>
          pipeline.buf.id = IF Len(jobs) + 1 <= pipeline.max_jobs + 1
                            THEN Len(jobs) + 1
                            ELSE jobs[Len(jobs) - pipeline.max_jobs].buf.id

\* C7 witness: max_jobs jobs are pending, max_jobs + 1 buffers exist and the
\* producer fills a buffer it took back from a job.
C7_Witness ==
    /\ pc = "write"
    /\ Len(pipeline.receivers) = pipeline.max_jobs
    /\ LiveBuffers = pipeline.max_jobs + 1
    /\ Len(jobs) > pipeline.max_jobs + 1
    /\ \E i \in 1 .. Len(jobs) :
          jobs[i].status = "received" /\ jobs[i].buf.id = pipeline.buf.id

\* C8: every buffer has one owner: the producer's buffer is held by no
\* worker and lies in no channel, and no two jobs hold the same buffer.
C8_ExclusiveOwnership ==
    /\ \A i \in LiveJobs : jobs[i].buf.id # pipeline.buf.id
    /\ \A i, k \in LiveJobs : i # k => jobs[i].buf.id # jobs[k].buf.id
    /\ \A i \in 1 .. Len(pipeline.receivers), k \in 1 .. Len(pipeline.receivers) :
          i # k => pipeline.receivers[i] # pipeline.receivers[k]
    /\ \A i \in LiveJobs : \E k \in 1 .. Len(pipeline.receivers) :
          pipeline.receivers[k] = i

\* C8 witness: a worker holds a buffer that an earlier worker held and gave
\* back, while the producer fills another one.
C8_Witness ==
    /\ pc = "write"
    /\ \E i, k \in 1 .. Len(jobs) :
          /\ i < k
          /\ jobs[i].buf.id = jobs[k].buf.id
          /\ jobs[i].status = "received"
          /\ jobs[k].status = "spawned"
    /\ pipeline.buf.data # NoBytes
\* C10 as claimed: a hung-up worker is reported as an error value, so the
\* write() call that drains its receiver returns an Err.
C10_WriteReturnsErr ==
    (DrainedHungUp /\ ~pipeline.final_job_sent) =>
       (wret # <<>> /\ wret[1].kind = "Err")

\* C10 as amended: the call that drains the receiver of a hung-up worker,
\* write() or finish(), panics ("worker hung up") and returns nothing;
\* write() only ever returns Ok(input_len), finish() returns a digest only
\* when every job delivered, and nothing else makes a call panic.
C10_HungUpPanics ==
    /\ DrainedHungUp => (pc = "panic" /\ result = <<>>)
    /\ pc = "panic" => DrainedHungUp
    /\ wret # <<>> => wret[1] = Ok(input_len)
    /\ result # <<>> =>
          /\ \A i \in 1 .. Len(jobs) : jobs[i].status = "received"
          /\ result = <<hash(WholeInput)>>

\* C10 witness: write() panicked on the receiver of a hung-up worker after
\* it had pushed the result of an earlier one.
C10_Witness ==
    /\ pc = "panic"
    /\ DrainedHungUp
    /\ ~pipeline.final_job_sent
    /\ pushLog # <<>>

\* The jobs dispatched from write(): all but the final job of finish().
WriteJobs ==
    1 .. (IF pipeline.final_job_sent THEN Len(jobs) - 1 ELSE Len(jobs))

\* C17: every job dispatched from write() holds exactly job_size bytes, is
\* NotRoot and was dispatched because more input had arrived: at least one
\* byte follows it, in the next job or in the buffer.  The final job, which
\* finish() dispatches, holds at most job_size bytes and is empty only if no
\* byte was ever written.  So every length pushed is job_size except that
\* of the final job, which for nonempty input lies in 1 .. job_size.
C17_JobSizes ==
    /\ \A i \in WriteJobs :
          /\ BLen(jobs[i].buf.data) = pipeline.job_size
          /\ jobs[i].fin = NotRoot
          /\ i * pipeline.job_size < written - BLen(input)
    /\ ~pipeline.final_job_sent =>
          /\ BLen(pipeline.buf.data) \in 0 .. pipeline.job_size
          /\ Len(jobs) >= 1 => BLen(pipeline.buf.data) >= 1
          /\ written - BLen(input) > 0 => BLen(pipeline.buf.data) >= 1
    /\ pipeline.final_job_sent =>
          /\ BLen(jobs[Len(jobs)].buf.data) \in 0 .. pipeline.job_size
          /\ BLen(jobs[Len(jobs)].buf.data) = 0 => (written = 0 /\ Len(jobs) = 1)
          /\ pipeline.buf.data = NoBytes
    /\ \A i \in 1 .. Len(pushLog) :
          /\ i \in WriteJobs => pushLog[i].len = pipeline.job_size
          /\ (i \notin WriteJobs /\ written > 0) => pushLog[i].len \in 1 .. pipeline.job_size
    /\ pc = "done" =>
          /\ Len(pushLog) = Len(jobs)
          /\ state.total_len = written

\* C17 witness: finish() returned after two full jobs of two chunks each,
\* dispatched from write(), and a final job of a single byte.
C17_Witness ==
    /\ pc = "done"
    /\ pipeline.job_size = 2 * CHUNK_SIZE
    /\ Len(pushLog) = 3
    /\ pushLog[1].len = 2 * CHUNK_SIZE
    /\ pushLog[2].len = 2 * CHUNK_SIZE
    /\ pushLog[3].len = 1

\* C19: with every spawned worker scheduled in the end, every write() call
\* and the finish() call return and nothing panics: a producer blocked in
\* write() waits for the oldest pending receiver, whose worker has yet to
\* run; a worker sends once and its message stays in its own channel until
\* it is received; a turn of the loop of write() takes at least one byte of a
\* nonempty slice; and when finish() has returned every job was received.
C19_CallsReturn ==
    /\ (pc = "write") ~> (pc = "idle" /\ wret = <<Ok(input_len)>>)
    /\ (pc = "finish") ~> (pc = "done" /\ result # <<>>)
    /\ [](pc # "panic")
    /\ []((pc = "write" /\ write_loop_blocks(pipeline, jobs, input)) =>
              ENABLED WorkerRun(Head(pipeline.receivers)))
    /\ []((pc = "finish" /\ pipeline.receivers # <<>>
           /\ recv_blocks(jobs, Head(pipeline.receivers))) =>
              ENABLED WorkerRun(Head(pipeline.receivers)))
    /\ [][\A i \in 1 .. Len(jobs) :
             /\ jobs[i].status = "sent" =>
                   /\ jobs'[i].status \in {"sent", "received"}
                   /\ jobs'[i].hash = jobs[i].hash
             /\ jobs[i].status = "received" => jobs'[i] = jobs[i]]_vars
    /\ [][(pc = "write" /\ input' # input) => BLen(input') < BLen(input)]_vars
    /\ [](pc = "done" =>
             /\ pipeline.receivers = <<>>
             /\ \A i \in 1 .. Len(jobs) : jobs[i].status = "received")

\* C19 witness: with max_jobs = 2 the producer is blocked in write() on the
\* oldest pending job while the younger one has sent already.
C19_Witness ==
    /\ pc = "write"
    /\ write_loop_blocks(pipeline, jobs, input)
    /\ Len(pipeline.receivers) = 2
    /\ jobs[pipeline.receivers[1]].status = "spawned"
    /\ jobs[pipeline.receivers[2]].status = "sent"

\* C20 as claimed: the jobs dispatched and not yet drained never number
\* more than max_jobs, in write() and in finish() alike.
C20_QueueWithinMaxJobs == Len(pipeline.receivers) <= pipeline.max_jobs

\* C12 as claimed: once finish() has returned the Writer is Done and takes
\* no further call: from then on no job is dispatched, the Merging State
\* does not change and no digest is returned again.
C12_NothingAfterDone ==
    [][nfinish >= 1 =>
         /\ Len(jobs') = Len(jobs)
         /\ state' = state
         /\ nfinish' = nfinish]_vars

\* ------------------------------------------------------- State: claims
\* The input the pushed subtrees cover.
DrvInput == Bytes(0, dpos)

\* Every push of h was CHUNK_SIZE bytes hashed NotRoot.
AllChunkPushes(h) ==
    \A i \in 1 .. Len(h) : h[i].len = CHUNK_SIZE /\ h[i].fin = NotRoot

\* h is one push per chunk of a nonempty input: unit bytes each except the
\* last, which is in (0, unit].
PerUnitLens(h, unit) ==
    /\ Len(h) >= 1
    /\ \A i \in 1 .. Len(h) - 1 : h[i].len = unit
    /\ h[Len(h)].len \in 1 .. unit

\* merge_parent was called until it returned None since the last push.
Drained == dloop # <<>> /\ dloop[Len(dloop)] = <<>>

\* The caller only called push_subtree and then finish().
PushedThenFinished == dphase = "done" /\ dmp = 0 /\ dfin = <<>>

\* C2 as claimed: pushing the NotRoot hash of every chunk and then calling
\* finish() yields hash(s) for every nonempty s.
C2_InteriorPushesGiveHash ==
    (/\ PushedThenFinished
     /\ dunit = CHUNK_SIZE
     /\ PerUnitLens(dhist, CHUNK_SIZE)
     /\ \A i \in 1 .. Len(dhist) : dhist[i].fin = NotRoot)
    => dret = <<hash(DrvInput)>>

\* C2 as amended: it yields hash(s) for every s longer than CHUNK_SIZE; for
\* 0 < |s| <= CHUNK_SIZE the one digest pushed is returned as it is, so the
\* result is hash(s) when the caller hashed it with Root(|s|), as drive_state
\* does, and is the NotRoot chunk hash when the caller hashed it NotRoot.
C2_DriveStateGivesHash ==
    (/\ PushedThenFinished
     /\ dunit = CHUNK_SIZE
     /\ PerUnitLens(dhist, CHUNK_SIZE))
    => /\ (/\ Len(dhist) >= 2
           /\ \A i \in 1 .. Len(dhist) : dhist[i].fin = NotRoot)
          => dret = <<hash(DrvInput)>>
       /\ (Len(dhist) = 1 /\ dhist[1].fin = Root(dpos))
          => dret = <<hash(DrvInput)>>
       /\ (Len(dhist) = 1 /\ dhist[1].fin = NotRoot)
          => /\ dret = <<hash_node(DrvInput, NotRoot)>>
             /\ dret # <<hash(DrvInput)>>

\* C2 witness: finish() returned the root after six chunk pushes and a
\* shorter last one.
C2_Witness ==
    /\ PushedThenFinished
    /\ dunit = CHUNK_SIZE
    /\ PerUnitLens(dhist, CHUNK_SIZE)
    /\ \A i \in 1 .. Len(dhist) : dhist[i].fin = NotRoot
    /\ Len(dhist) = 7
    /\ dhist[Len(dhist)].len < CHUNK_SIZE
    /\ dret = <<hash(DrvInput)>>

\* C5 as claimed: after k >= 1 chunk-sized pushes and no other call, the
\* stack holds popcount(k) digests.
C5_DepthIsPopcount ==
    (/\ dphase = "push"
     /\ dunit = CHUNK_SIZE
     /\ Len(dhist) >= 1
     /\ AllChunkPushes(dhist)
     /\ dmp = 0)
    => Len(dstate.subtrees) = count_ones(Len(dhist))

\* C5 as amended: after k >= 1 chunk-sized pushes the stack holds
\* popcount(k) digests once merge_parent() has been called until it returned
\* none; right after the k-th push, before any merge_parent call, it holds
\* popcount(k - 1) + 1, and in between at least popcount(k).
C5_DepthIsPopcountWhenDrained ==
    (/\ dphase = "push"
     /\ dunit = CHUNK_SIZE
     /\ Len(dhist) >= 1
     /\ AllChunkPushes(dhist))
    => /\ Drained => Len(dstate.subtrees) = count_ones(Len(dhist))
       /\ dloop = <<>> => Len(dstate.subtrees) = count_ones(Len(dhist) - 1) + 1
       /\ Len(dstate.subtrees) >= count_ones(Len(dhist))
       /\ Len(dstate.subtrees) <= count_ones(Len(dhist) - 1) + 1

\* C5 witness: four chunks were pushed and merge_parent drained the stack
\* from three digests to one.
C5_Witness ==
    /\ dphase = "push"
    /\ dunit = CHUNK_SIZE
    /\ Len(dhist) = 4
    /\ AllChunkPushes(dhist)
    /\ Drained
    /\ Len(dloop) = 3
    /\ Len(dstate.subtrees) = 1

\* total_len / CHUNK_SIZE of a 64-bit total_len has at most this many bits.
MaxChunkBits == U64_BITS - (BitLen(CHUNK_SIZE) - 1)

\* C6: driven by in-order pushes of one power-of-two size (the last one may
\* be shorter), the stack never overflows: no push finds it full, and it
\* holds at most one digest more than total_len / CHUNK_SIZE has bits, which
\* for a 64-bit total_len is at most MAX_DEPTH.
C6_StackWithinMaxDepth ==
    (\/ dhist = <<>>
     \/ /\ PerUnitLens(dhist, dunit)
        /\ \A i \in 1 .. Len(dhist) : dhist[i].fin = NotRoot)
    => /\ dstate.panic # "capacity"
       /\ Len(dstate.subtrees) <= BitLen(dstate.total_len \div CHUNK_SIZE) + 1
       /\ Len(dstate.subtrees) <= MAX_DEPTH
       /\ MaxChunkBits + 1 <= MAX_DEPTH

\* C6 witness: after six pushes of two chunks each and a last one of a
\* single chunk the stack is at its deepest, three digests.
C6_Witness ==
    /\ dunit = 2 * CHUNK_SIZE
    /\ Len(dhist) = 7
    /\ PerUnitLens(dhist, dunit)
    /\ \A i \in 1 .. Len(dhist) : dhist[i].fin = NotRoot
    /\ dhist[7].len = CHUNK_SIZE
    /\ Len(dstate.subtrees) = 3
    /\ dstate.total_len \div CHUNK_SIZE = 13

\* Some push of h breaks the length rule: it is empty, or longer than
\* CHUNK_SIZE, or shorter than CHUNK_SIZE and not the last one.
IllegalPush(h) ==
    \E i \in 1 .. Len(h) :
       \/ h[i].len = 0
       \/ h[i].len > CHUNK_SIZE
       \/ h[i].len < CHUNK_SIZE /\ i < Len(h)

RECURSIVE SumLens(_)
\* The sum of the lengths pushed.
SumLens(h) == IF h = <<>> THEN 0 ELSE h[1].len + SumLens(Tail(h))

\* C11 as claimed: a push of length 0, or above CHUNK_SIZE, or a push that
\* follows a push shorter than CHUNK_SIZE, makes push_subtree panic.
C11_IllegalPushPanics ==
    (dunit = CHUNK_SIZE /\ IllegalPush(dhist)) => Panicked(dstate)

\* C11 as amended: push_subtree checks no length.  As long as no operation
\* panicked every push, legal or not, put one digest on the stack (each
\* merge took one off) and added its length to total_len.  The only panic of
\* a push or of merge_parent is the pop().unwrap() of merge_inner, which
\* happens when the stack holds the single digest of pushes of less than
\* CHUNK_SIZE bytes in all; no length is ever rejected as such.
C11_PushChecksNoLength ==
    /\ dstate.panic \in {"none", "unwrap", "index"}
    /\ dstate.panic = "none" =>
          /\ dstate.total_len = SumLens(dhist)
          /\ Len(dstate.subtrees) + Len(dstate.log) = Len(dhist)
    /\ dstate.panic = "unwrap" =>
          /\ Len(dstate.subtrees) = 1
          /\ dstate.total_len < CHUNK_SIZE
    /\ dstate.panic = "index" => dhist = <<>>

\* C11 witness: the State took a push longer than CHUNK_SIZE, or an empty
\* one, or a short one in the middle, and further pushes after it, and
\* nothing panicked.
C11_Witness ==
    /\ dunit = CHUNK_SIZE
    /\ dphase = "push"
    /\ Len(dhist) >= 3
    /\ \E i \in 2 .. Len(dhist) - 1 : dhist[i].len \in {0, 1, CHUNK_SIZE + 1}
    /\ dstate.total_len = SumLens(dhist)
    /\ Len(dstate.subtrees) >= 2

\* C13: for every j and every input longer than 2^j * CHUNK_SIZE, pushing
\* the NotRoot hash_recurse digests of consecutive pieces of 2^j * CHUNK_SIZE
\* bytes, the last piece in (0, 2^j * CHUNK_SIZE], and then calling finish()
\* returns hash(s), which is also what chunk-by-chunk driving returns.
C13_SubtreePushesGiveHash ==
    (/\ PushedThenFinished
     /\ PerUnitLens(dhist, dunit)
     /\ Len(dhist) >= 2
     /\ \A i \in 1 .. Len(dhist) : dhist[i].fin = NotRoot)
    => /\ dret = <<hash(DrvInput)>>
       /\ dret = <<drive_state(DrvInput)>>

\* C13 witness: finish() returned the root after four pushes of two chunks
\* each and a last one of a chunk and a byte.
C13_Witness ==
    /\ PushedThenFinished
    /\ dunit = 2 * CHUNK_SIZE
    /\ Len(dhist) = 5
    /\ PerUnitLens(dhist, dunit)
    /\ \A i \in 1 .. Len(dhist) : dhist[i].fin = NotRoot
    /\ dhist[5].len = CHUNK_SIZE + 1
    /\ dret = <<hash(DrvInput)>>

RECURSIVE Cover(_)
\* The input bytes below the digest d, left to right.
Cover(d) ==
    IF d.hashes = <<>> THEN d.bytes
    ELSE Cat(Cover(d.hashes[1]), Cover(d.hashes[2]))

\* C14: with chunk-sized pushes, a merge_parent() call returns none exactly
\* when the stack depth is at most popcount(total_len / CHUNK_SIZE), and then
\* changes nothing; otherwise it returns the left digest followed by the
\* right digest of the two topmost stack entries and replaces them by their
\* NotRoot parent.  The two merged subtrees cover the same number of bytes,
\* the left one right before the right one, and within one loop every parent
\* covers twice the bytes of the one returned before it.
C14_MergeParentLoop ==
    [][(/\ dunit = CHUNK_SIZE
        /\ AllChunkPushes(dhist)
        /\ dmp' = dmp + 1)
       => LET n == Len(dstate.subtrees)
              ret == dloop'[Len(dloop')]
          IN  /\ (ret = <<>>) <=> (n <= count_ones(dstate.total_len \div CHUNK_SIZE))
              /\ ret = <<>> => dstate' = dstate
              /\ ret # <<>> =>
                    LET left == dstate.subtrees[n - 1]
                        right == dstate.subtrees[n]
                    IN  /\ ret[1] = <<left, right>>
                        /\ dstate'.subtrees =
                              Append(SubSeq(dstate.subtrees, 1, n - 2),
                                     parent_hash(left, right, NotRoot))
                        /\ dstate'.total_len = dstate.total_len
                        /\ BLen(Cover(left)) = BLen(Cover(right))
                        /\ Len(Cat(Cover(left), Cover(right))) = 1
                        /\ dloop = <<>> => BLen(Cover(left)) = CHUNK_SIZE
                        /\ dloop # <<>> =>
                              BLen(Cover(left)) = 2 * BLen(Cover(dloop[Len(dloop)][1][1]))
      ]_vars

\* C14 witness: after the fourth chunk push the loop returned the parent of
\* chunks 3 and 4, then the parent covering all four chunks, then none.
C14_Witness ==
    /\ dunit = CHUNK_SIZE
    /\ Len(dhist) = 4
    /\ AllChunkPushes(dhist)
    /\ Len(dloop) = 3
    /\ dloop[3] = <<>>
    /\ Cat(Cover(dloop[1][1][1]), Cover(dloop[1][1][2]))
          = Bytes(2 * CHUNK_SIZE, 4 * CHUNK_SIZE)
    /\ Cat(Cover(dloop[2][1][1]), Cover(dloop[2][1][2])) = Bytes(0, 4 * CHUNK_SIZE)

RECURSIVE FoldFromTop(_, _)
\* The digests st folded from the top of the stack down: the two topmost are
\* replaced by their parent, NotRoot while more than two are left and
\* Root(total) for the last two.
FoldFromTop(st, total) ==
    LET n == Len(st)
    IN  IF n = 1 THEN st[1]
        ELSE IF n = 2 THEN parent_hash(st[1], st[2], Root(total))
        ELSE FoldFromTop(Append(SubSeq(st, 1, n - 2),
                                parent_hash(st[n - 1], st[n], NotRoot)),
                         total)

\* C18: finish() on a State holding d >= 1 digests does exactly d - 1
\* merges, the first d - 2 NotRoot and the last Root(total_len), total_len
\* being the sum of the pushed lengths, and returns the one digest left; with
\* d = 1 it returns that digest and changes nothing.  A merge_finish() call
\* on more than one digest returns the parent node of the two topmost ones,
\* left then right, and lowers the depth by one, with Root(total_len) exactly
\* when two were left; on one digest it returns it as the root.
C18_FinishMerges ==
    [][LET st == dstate.subtrees
           d == Len(st)
           merges == Len(dstate'.log) - Len(dstate.log)
       IN  /\ (d >= 1 /\ dphase' = "done" /\ dfin' = dfin) =>
                 /\ merges = d - 1
                 /\ \A k \in 1 .. merges :
                       dstate'.log[Len(dstate.log) + k].fin =
                          IF k = merges THEN Root(dstate.total_len) ELSE NotRoot
                 /\ dstate.total_len = SumLens(dhist)
                 /\ dstate'.subtrees = <<FoldFromTop(st, dstate.total_len)>>
                 /\ dret' = dstate'.subtrees
                 /\ d = 1 => (dstate' = dstate /\ dret' = <<st[1]>>)
           /\ (d >= 1 /\ dfin' # dfin) =>
                 LET r == dfin'[Len(dfin')]
                 IN  /\ d = 1 => (r = [kind |-> "Root", val |-> st[1]] /\ dstate' = dstate)
                     /\ d >= 2 =>
                           /\ r = [kind |-> "Parent", val |-> <<st[d - 1], st[d]>>]
                           /\ Len(dstate'.subtrees) = d - 1
                           /\ merges = 1
                           /\ dstate'.log[Len(dstate'.log)].fin =
                                 IF d = 2 THEN Root(dstate.total_len) ELSE NotRoot
                           /\ dstate'.subtrees[d - 1] =
                                 parent_hash(st[d - 1], st[d],
                                             IF d = 2 THEN Root(dstate.total_len)
                                             ELSE NotRoot)
      ]_vars

\* C18 witness: finish() was called on the three digests that seven chunk
\* pushes leave; it merged twice, NotRoot and then Root(total_len).
C18_Witness ==
    /\ PushedThenFinished
    /\ Len(dhist) = 7
    /\ AllChunkPushes(dhist)
    /\ Len(dstate.log) = 6
    /\ dstate.log[5].fin = NotRoot
    /\ dstate.log[5].node[2] = hash_node(Bytes(6 * CHUNK_SIZE, 7 * CHUNK_SIZE), NotRoot)
    /\ dstate.log[6].fin = Root(7 * CHUNK_SIZE)
    /\ dret = dstate.subtrees

RECURSIVE CoverBelow(_, _)
\* The input bytes below the n lowest digests of the stack st, left to right.
CoverBelow(st, n) ==
    IF n = 0 THEN NoBytes ELSE Cat(CoverBelow(st, n - 1), Cover(st[n]))

\* C21: right after the k-th chunk-sized push on a fresh State, with no
\* merge_parent call made, the stack holds popcount(k - 1) + 1 digests.  The
\* top one is the chunk just pushed; the ones below it are the NotRoot hashes
\* of consecutive pieces of the first k - 1 chunks, each a power-of-two
\* number of chunks, strictly decreasing from left to right, that is the
\* binary digits of k - 1; and total_len is the sum of the pushed lengths.
C21_DepthAfterPush ==
    [][(/\ dunit = CHUNK_SIZE
        /\ Len(dhist') = Len(dhist) + 1
        /\ AllChunkPushes(dhist')
        /\ dmp' = 0)
       => LET k == Len(dhist')
              st == dstate'.subtrees
              n == Len(st)
          IN  /\ dphase' = "push"
              /\ n = count_ones(k - 1) + 1
              /\ st[n] = hash_node(Bytes((k - 1) * CHUNK_SIZE, k * CHUNK_SIZE), NotRoot)
              /\ \A i \in 1 .. n - 1 :
                    /\ BLen(Cover(st[i])) % CHUNK_SIZE = 0
                    /\ count_ones(BLen(Cover(st[i])) \div CHUNK_SIZE) = 1
                    /\ st[i] = hash_recurse(Cover(st[i]), NotRoot)
                    /\ i > 1 => BLen(Cover(st[i])) < BLen(Cover(st[i - 1]))
              /\ CoverBelow(st, n - 1) = Bytes(0, (k - 1) * CHUNK_SIZE)
              /\ dstate'.total_len = k * CHUNK_SIZE
              /\ dstate'.total_len = SumLens(dhist')
      ]_vars

\* C21 witness: right after the seventh chunk push the stack holds the
\* subtree of chunks 1 to 4, the subtree of chunks 5 and 6, and chunk 7.
C21_Witness ==
    /\ dunit = CHUNK_SIZE
    /\ dphase = "push"
    /\ dmp = 0
    /\ dloop = <<>>
    /\ Len(dhist) = 7
    /\ AllChunkPushes(dhist)
    /\ Len(dstate.subtrees) = 3
    /\ Cover(dstate.subtrees[1]) = Bytes(0, 4 * CHUNK_SIZE)
    /\ Cover(dstate.subtrees[2]) = Bytes(4 * CHUNK_SIZE, 6 * CHUNK_SIZE)
    /\ Cover(dstate.subtrees[3]) = Bytes(6 * CHUNK_SIZE, 7 * CHUNK_SIZE)

RECURSIVE LazyState(_, _)
\* The State after the first n pushes of h made on a fresh State with no
\* other call in between.
LazyState(h, n) ==
    IF n = 0 THEN State_new
    ELSE LET pos == SumLens(SubSeq(h, 1, n - 1))
             subtree_hash == hash_recurse(Bytes(pos, pos + h[n].len), h[n].fin)
         IN  CHOOSE pushed \in {push_subtree(self, subtree_hash, h[n].len) :
                                  self \in {LazyState(h, n - 1)}} : TRUE

\* What finish() gives after the pushes of h and no other call.
LazyFinish(h) == State_finish(LazyState(h, Len(h)))

\* The pushes of h are the ones push_subtree is documented for: pieces of
\* one size hashed NotRoot, the last one in (0, unit], or a single piece
\* hashed as the root.
DocumentedPushes(h, unit) ==
    /\ PerUnitLens(h, unit)
    /\ \/ \A i \in 1 .. Len(h) : h[i].fin = NotRoot
       \/ Len(h) = 1 /\ h[1].fin = Root(h[1].len)

\* C22 as claimed: for the same pushes the root returned is the same and the
\* parent nodes formed are the same, pushes - 1 of them, whether
\* merge_parent() was called after some, all or none of the pushes.
C22_EagerEqualsLazy ==
    (dphase = "done" /\ DocumentedPushes(dhist, dunit))
    => /\ dret = <<LazyFinish(dhist).val>>
       /\ Len(dstate.log) = Len(dhist) - 1
       /\ \A i \in 1 .. Len(dstate.log) :
             dstate.log[i].node = LazyFinish(dhist).self.log[i].node

\* C22 as amended: this holds when merge_parent() was called after any of
\* the pushes but the last, any number of times until it returned none, and
\* the last push was followed by finish() or by merge_finish() until the
\* root: the root, and the parent nodes with their finalizations in the
\* order they were formed, are those of the pushes followed by finish()
\* alone, and there are pushes - 1 parent nodes.
C22_EagerEqualsLazyButLast ==
    [][(dphase' = "done" /\ dphase # "done" /\ dloop' = <<>>)
       => /\ Len(dstate'.log) = Len(dhist') - 1
          /\ \A lazy \in {LazyFinish(dhist')} :
                /\ dret' = <<lazy.val>>
                /\ dstate'.log = lazy.self.log
      ]_vars

\* C22 witness: of four chunk pushes and a short last one, the second and
\* the fourth were followed by merge_parent() until none and the last one by
\* finish(), which returned the hash of the input.
C22_Witness ==
    /\ dphase = "done"
    /\ dunit = CHUNK_SIZE
    /\ DocumentedPushes(dhist, dunit)
    /\ Len(dhist) = 5
    /\ dhist[5].len = 1
    /\ dloop = <<>>
    /\ dmp = 5
    /\ dfin = <<>>
    /\ Len(dstate.log) = 4
    /\ dret = <<hash(DrvInput)>>

\* ------------------------------------------------- geometry: claims
\* The call left_len(n) has returned.
LeftLenReturned ==
    gcall # <<>> /\ gcall[1].fun = "left_len" /\ gret # <<>>

\* The call largest_power_of_two(n) has returned.
LargestPowerOfTwoReturned ==
    gcall # <<>> /\ gcall[1].fun = "largest_power_of_two" /\ gret # <<>>

\* C15: for every content_len n > CHUNK_SIZE, left_len(n) < n, that is n -
\* left_len(n) >= 1; left_len(n) is a multiple of CHUNK_SIZE and left_len(n)
\* / CHUNK_SIZE is a power of two; and left_len(C + 1) = C, left_len(2C - 1)
\* = C, left_len(2C) = C, left_len(2C + 1) = 2C.
C15_LeftLen ==
    /\ LeftLenReturned =>
          LET n == gcall[1].n
              l == gret[1]
          IN  /\ Lt_u64(l, n)
              /\ ~Lt_u64(Dec_u64(n), l)
              /\ Mul_u64(Div_u64(l, CHUNK_SIZE), CHUNK_SIZE) = l
              /\ IsPowerOfTwo_u64(Div_u64(l, CHUNK_SIZE))
              /\ FitsIn(n, 30) => l = U64(left_len(decode_len(n)))
    /\ left_len(CHUNK_SIZE + 1) = CHUNK_SIZE
    /\ left_len(2 * CHUNK_SIZE - 1) = CHUNK_SIZE
    /\ left_len(2 * CHUNK_SIZE) = CHUNK_SIZE
    /\ left_len(2 * CHUNK_SIZE + 1) = 2 * CHUNK_SIZE

\* C15 witness: left_len(2^64 - 1) returned 2^63.
C15_Witness ==
    /\ LeftLenReturned
    /\ gcall[1].n = MaxU64
    /\ gret[1] = OneShl_u64(U64_BITS - 1)

\* C16: for every u64 n >= 1, largest_power_of_two(n) is a power of two r
\* with r <= n < 2 * r, the shift that computes it is within 0 .. 63, and
\* largest_power_of_two(2^64 - 1) = 2^63.  The small cases are those of
\* test_power_of_two.
C16_LargestPowerOfTwo ==
    /\ LargestPowerOfTwoReturned =>
          LET n == gcall[1].n
              r == gret[1]
          IN  /\ IsPowerOfTwo_u64(r)
              /\ ~Lt_u64(n, r)
              /\ Lt_u64(Div_u64(n, 2), r)
              /\ 63 - leading_zeros_u64(n) \in 0 .. 63
              /\ n = MaxU64 => r = OneShl_u64(U64_BITS - 1)
              /\ FitsIn(n, 30) => r = U64(largest_power_of_two(decode_len(n)))
    /\ \A p \in {<<1, 1>>, <<2, 2>>, <<3, 2>>, <<4, 4>>, <<5, 4>>, <<6, 4>>, <<7, 4>>,
                 <<8, 8>>} :
          largest_power_of_two(p[1]) = p[2]

\* C16 witness: largest_power_of_two(2^64 - 1) returned 2^63.
C16_Witness ==
    /\ LargestPowerOfTwoReturned
    /\ gcall[1].n = MaxU64
    /\ gret[1] = OneShl_u64(U64_BITS - 1)

\* ------------------------------------------------- one-shot: claims
\* C9: hash_recurse, hash_recurse_rayon (in any order of completion of the
\* siblings) and hash() return the same digest with Root(|input|), and
\* hash() takes the parallel path exactly above MAX_SINGLE_THREADED.
C9_SerialEqualsParallel ==
    /\ \A t \in tasks :
          t.status = "done" => t.hash = <<hash_recurse(t.input, t.fin)>>
    /\ hphase = "done" /\ hret # <<>> =>
          /\ hret = <<hash_recurse(Bytes(0, hlen), Root(hlen))>>
          /\ hentry = "hash" => ((tasks # {}) <=> (hlen > MAX_SINGLE_THREADED))
          /\ hentry = "hash_recurse_rayon" => tasks # {}

\* C9 witness: hash() returned from the parallel path after a right sibling
\* had finished before its left sibling.
C9_Witness ==
    /\ hphase = "done"
    /\ hentry = "hash"
    /\ hlen > MAX_SINGLE_THREADED
    /\ hovertaken
    /\ hret # <<>>

====
